---- MODULE Spec2Model ----
(***************************************************************************)
(* supsm::fixed<T, scale_bits, fast_multdiv, multdiv_cast_type>            *)
(* (src/fixed.h): a fixed point number stored in one integer raw_data.     *)
(*                                                                         *)
(* T is modelled as the 8-bit types uint8_t / int8_t (and, for the         *)
(* conversions, the 16-bit types too).  For these types C++ performs every *)
(* arithmetic, shift and bitwise operation in int after integral           *)
(* promotion and narrows modulo 2^bits only where a value is stored in a   *)
(* UT or T object; the operators below follow that: an expression is       *)
(* computed on unbounded integers and ToUT / ToT is applied exactly where  *)
(* the source assigns or casts.                                            *)
(***************************************************************************)
EXTENDS Integers, Sequences, FiniteSets, TLC

VARIABLES
    bits_num,      \* std::numeric_limits<UT>::digits, the width of T
    is_signed,     \* std::is_signed_v<T>
    scale_bits,    \* template parameter scale_bits
    fast_multdiv,  \* template parameter fast_multdiv
    lhs,           \* raw_data of *this before the operation
    rhs,           \* other.raw_data
    raw_data,      \* raw_data of *this
    pc,            \* the operation that has produced raw_data, or the place in one
    i,             \* operator/=: the loop counter
    div_high,      \* operator/=: UT div_high
    div_low,       \* operator/=: UT div_low
    b,             \* operator/=: UT b, the magnitude of the divisor
    int_val,       \* the constructors' argument int_val
    scale,         \* the two-argument constructor's argument scale
    t2_bits,       \* operator T2(): the width of T2
    t2_signed,     \* operator T2(): std::is_signed_v<T2>
    result         \* operator T2(): the value returned

config == <<bits_num, is_signed, scale_bits, fast_multdiv>>
divide == <<i, div_high, div_low, b>>
convert == <<int_val, scale, t2_bits, t2_signed, result>>
vars == <<config, lhs, rhs, raw_data, pc, divide, convert>>

----------------------------------------------------------------------------
(* Integer types.                                                          *)

Pow2(n) == 2 ^ n

\* conversion to an unsigned type of the given width: modulo 2^bits
ToUT(x, bits) == x % Pow2(bits)

\* conversion to T (two's complement since C++20 when T is signed)
ToT(x, bits, sgn) ==
    LET u == x % Pow2(bits)
    IN  IF sgn /\ u >= Pow2(bits - 1) THEN u - Pow2(bits) ELSE u

\* std::numeric_limits<T>::min() and max()
TMin(bits, sgn) == IF sgn THEN -Pow2(bits - 1) ELSE 0
TMax(bits, sgn) == IF sgn THEN Pow2(bits - 1) - 1 ELSE Pow2(bits) - 1
TRange(bits, sgn) == TMin(bits, sgn) .. TMax(bits, sgn)

\* x << n on int
Shl(x, n) == x * Pow2(n)

\* x >> n on int: arithmetic shift, rounds toward minus infinity
Shr(x, n) == x \div Pow2(n)

\* x / y on int: the quotient truncated toward zero (y # 0)
TruncDiv(x, y) ==
    LET ax == IF x < 0 THEN -x ELSE x
        ay == IF y < 0 THEN -y ELSE y
        q  == ax \div ay
    IN  IF (x < 0) = (y < 0) THEN q ELSE -q

RECURSIVE BitOr(_, _)
\* x | y on non-negative operands
BitOr(x, y) ==
    IF x = 0 THEN y
    ELSE IF y = 0 THEN x
    ELSE (IF x % 2 = 1 \/ y % 2 = 1 THEN 1 ELSE 0) + 2 * BitOr(x \div 2, y \div 2)

RECURSIVE BitAnd(_, _)
\* x & y on non-negative operands
BitAnd(x, y) ==
    IF x = 0 \/ y = 0 THEN 0
    ELSE (IF x % 2 = 1 /\ y % 2 = 1 THEN 1 ELSE 0) + 2 * BitAnd(x \div 2, y \div 2)

----------------------------------------------------------------------------
(* operator*=(const fixed&), safe strategy (fast_multdiv = false).         *)

low_bits_num(bits) == bits \div 2

high_bits(x, bits) == Shr(ToUT(x, bits), low_bits_num(bits))

low_bits(x, bits) == BitAnd(ToUT(x, bits), Shl(1, low_bits_num(bits)) - 1)

\* bool neg_a = a >> (bits_num - 1), on the UT copy of a raw value
IsNeg(x, bits, sgn) == sgn /\ Shr(ToUT(x, bits), bits - 1) # 0

\* UT a = raw_data; if (neg_a) { a = -a; }
AbsUT(x, bits, sgn) ==
    IF IsNeg(x, bits, sgn) THEN ToUT(-ToUT(x, bits), bits) ELSE ToUT(x, bits)

\* negate = neg_a != neg_b, false for an unsigned T (negate is never read)
Negate(x, y, bits, sgn) == IsNeg(x, bits, sgn) # IsNeg(y, bits, sgn)

\* the long multiplication of the magnitudes p (UT a) and q (UT b); X_int is
\* the right-hand side of X's initialisation in int, before it is stored in
\* the UT object X
L1_L2_int(p, q, bits) == low_bits(p, bits) * low_bits(q, bits)
L1_L2(p, q, bits) == ToUT(L1_L2_int(p, q, bits), bits)
result_0(p, q, bits) == low_bits(L1_L2(p, q, bits), bits)

\* H1_L2_C without the carry out of L1_L2
H1_L2_C_int_NoCarry(p, q, bits) == high_bits(p, bits) * low_bits(q, bits)

H1_L2_C_int(p, q, bits) ==
    high_bits(p, bits) * low_bits(q, bits) + high_bits(L1_L2(p, q, bits), bits)
H1_L2_C(p, q, bits) == ToUT(H1_L2_C_int(p, q, bits), bits)

\* L1_H2_C with all of H1_L2_C added, not its low half
L1_H2_C_int_WholeCarry(p, q, bits) ==
    low_bits(p, bits) * high_bits(q, bits) + H1_L2_C(p, q, bits)

L1_H2_C_int(p, q, bits) ==
    low_bits(p, bits) * high_bits(q, bits) + low_bits(H1_L2_C(p, q, bits), bits)
L1_H2_C(p, q, bits) == ToUT(L1_H2_C_int(p, q, bits), bits)
result_1(p, q, bits) == low_bits(L1_H2_C(p, q, bits), bits)

H1_H2_C_int(p, q, bits) ==
    high_bits(p, bits) * high_bits(q, bits)
        + high_bits(H1_L2_C(p, q, bits), bits) + high_bits(L1_H2_C(p, q, bits), bits)
H1_H2_C(p, q, bits) == ToUT(H1_H2_C_int(p, q, bits), bits)
result_2(p, q, bits) == low_bits(H1_H2_C(p, q, bits), bits)
result_3(p, q, bits) == high_bits(H1_H2_C(p, q, bits), bits)

result_low(p, q, bits) ==
    ToUT(BitOr(result_0(p, q, bits), Shl(result_1(p, q, bits), low_bits_num(bits))), bits)
result_high(p, q, bits) ==
    ToUT(BitOr(result_2(p, q, bits), Shl(result_3(p, q, bits), low_bits_num(bits))), bits)

\* the extraction without the part taken from result_high
MulExtract_LowOnly(hi, lo, bits, S, sgn) == ToT(Shr(lo, S), bits, sgn)

\* the value line 157 stores: static_cast<T>(((result_high & ((UT(1) <<
\* scale_bits) - 1)) << (bits_num - scale_bits)) | (result_low >> scale_bits))
MulExtract(hi, lo, bits, S, sgn) ==
    ToT(BitOr(Shl(BitAnd(hi, Shl(1, S) - 1), bits - S), Shr(lo, S)), bits, sgn)

\* raw_data after the safe branch of operator*=
SafeMul(x, y, bits, S, sgn) ==
    LET p == AbsUT(x, bits, sgn)
        q == AbsUT(y, bits, sgn)
        r == MulExtract(result_high(p, q, bits), result_low(p, q, bits), bits, S, sgn)
    IN  IF Negate(x, y, bits, sgn) THEN ToT(-r, bits, sgn) ELSE r

\* raw_data after the fast branch of operator*=; multdiv_cast_type is the
\* 16-bit type of T's signedness, so both casts keep the value and the
\* product and the shift are done in int
FastMul(x, y, bits, S, sgn) == ToT(Shr(x * y, S), bits, sgn)

----------------------------------------------------------------------------
(* operator/=(const fixed&).                                               *)

\* UT div_high = (scale_bits == 0 ? 0 : a >> (bits_num - scale_bits))
DivHighInit(a, bits, S) == IF S = 0 THEN 0 ELSE ToUT(Shr(a, bits - S), bits)

\* UT div_low = a << scale_bits
DivLowInit(a, bits, S) == ToUT(Shl(a, S), bits)

\* the loop's condition with < for <=
LoopCond_OffByOne(k, bits) == k < bits

\* the loop's condition
LoopCond(k, bits) == k <= bits

\* the iteration without t, the bit shifted out of div_high
DivBody_NoCarry(dh, dl, d, bits) ==
    LET dh1 == ToUT(BitOr(Shl(dh, 1), Shr(dl, bits - 1)), bits)
        dl1 == ToUT(Shl(dl, 1), bits)
    IN  IF dh1 >= d
        THEN <<ToUT(dh1 - d, bits), ToUT(dl1 + 1, bits)>>
        ELSE <<dh1, dl1>>

\* one iteration of the shift-and-subtract loop on <<div_high, div_low>>
DivBody(dh, dl, d, bits) ==
    LET t   == ToUT(-Shr(dh, bits - 1), bits)
        dh1 == ToUT(BitOr(Shl(dh, 1), Shr(dl, bits - 1)), bits)
        dl1 == ToUT(Shl(dl, 1), bits)
    IN  IF BitOr(dh1, t) >= d
        THEN <<ToUT(dh1 - d, bits), ToUT(dl1 + 1, bits)>>
        ELSE <<dh1, dl1>>

RECURSIVE DivLoop(_, _, _, _, _)
\* the whole loop from counter k on; the final <<div_high, div_low>>
DivLoop(k, dh, dl, d, bits) ==
    IF LoopCond(k, bits)
    THEN LET n == DivBody(dh, dl, d, bits) IN DivLoop(k + 1, n[1], n[2], d, bits)
    ELSE <<dh, dl>>

\* if (negate) { div_low = -div_low; }  raw_data = static_cast<T>(div_low)
DivStore(dl, neg, bits, sgn) ==
    ToT(IF neg THEN ToUT(-dl, bits) ELSE dl, bits, sgn)

\* raw_data after the safe branch of operator/=
SafeDiv(x, y, bits, S, sgn) ==
    LET a == AbsUT(x, bits, sgn)
        d == AbsUT(y, bits, sgn)
        r == DivLoop(1, DivHighInit(a, bits, S), DivLowInit(a, bits, S), d, bits)
    IN  DivStore(r[2], Negate(x, y, bits, sgn), bits, sgn)

\* raw_data after the fast branch of operator/= with a divisor other than
\* zero; as in FastMul the shift and the division are done in int
FastDiv(x, y, bits, S, sgn) == ToT(TruncDiv(Shl(x, S), y), bits, sgn)

----------------------------------------------------------------------------
(* Constructors and the conversion to an integer.                          *)

\* fixed(int_val) : raw_data(T(int_val) << scale_bits)
FromInteger(v, bits, S, sgn) == ToT(Shl(ToT(v, bits, sgn), S), bits, sgn)

\* the two-argument constructor shifting by scale, not by scale_bits - scale
FromScaled_ShiftByScale(v, sc, bits, S, sgn) == ToT(Shl(ToT(v, bits, sgn), sc), bits, sgn)

\* fixed(int_val, scale) : raw_data(T(int_val) << (scale_bits - scale))
FromScaled(v, sc, bits, S, sgn) == ToT(Shl(ToT(v, bits, sgn), S - sc), bits, sgn)

\* bool operator==(const fixed&) const = default, on two raw_data
FixedEq(x, y) == x = y

\* operator T2(): return T2(raw_data) >> scale_bits; T2 is an 8- or 16-bit
\* type, so the shift is done in int on the converted value
ToInteger(raw, S, bits2, sgn2) == ToT(Shr(ToT(raw, bits2, sgn2), S), bits2, sgn2)

----------------------------------------------------------------------------
(* The configurations and operands explored.                               *)

\* how far from a landmark of T's range an operand's bit pattern may lie
Near == 7

\* the largest magnitude of a constructor's argument
MaxInt == 8

\* digits of uint8_t / int8_t and of uint16_t / int16_t
Bits8 == 8
Bits16 == 16

Landmarks(bits) == {0, Pow2(low_bits_num(bits)), Pow2(bits - 1), Pow2(bits)}

Dist(x, y) == IF x < y THEN y - x ELSE x - y

\* the raw values of T whose bit pattern lies near a landmark: zero, the
\* half-word boundary, the sign boundary (T's min when signed) and the top
Operands(bits, sgn) ==
    { ToT(u, bits, sgn) :
        u \in { v \in 0 .. Pow2(bits) - 1 : \E m \in Landmarks(bits) : Dist(v, m) <= Near } }

NoDivide == i = 0 /\ div_high = 0 /\ div_low = 0 /\ b = 0

NoConvert == int_val = 0 /\ scale = 0 /\ t2_bits = bits_num /\ t2_signed = is_signed /\ result = 0

----------------------------------------------------------------------------
(* Spec: two values of one configuration, and one operator*= or operator/= *)
(* applied to them.                                                        *)

\* fixed<uint8_t, S, F> and fixed<int8_t, S, F>, every S and F
InitOperands ==
    /\ bits_num = Bits8
    /\ is_signed \in BOOLEAN
    /\ fast_multdiv \in BOOLEAN
    /\ scale_bits \in 0 .. bits_num
    /\ lhs \in Operands(bits_num, is_signed)
    /\ rhs \in Operands(bits_num, is_signed)

\* the README's example f3 / f2, with uint16_t and 8 scale bits for its
\* uint32_t and 16: fixed f3 = 13; fixed f2(1, 4);
InitExample ==
    /\ bits_num = Bits16
    /\ is_signed = FALSE
    /\ fast_multdiv = FALSE
    /\ scale_bits = Bits16 \div 2
    /\ lhs = FromInteger(13, bits_num, scale_bits, is_signed)
    /\ rhs = FromScaled(1, 4, bits_num, scale_bits, is_signed)

Init ==
    /\ InitOperands \/ InitExample
    /\ raw_data = lhs
    /\ pc = "start"
    /\ NoDivide
    /\ NoConvert

\* fixed& operator*=(const fixed& other)
Mul ==
    /\ pc = "start"
    /\ raw_data' = IF ~fast_multdiv
                   THEN SafeMul(raw_data, rhs, bits_num, scale_bits, is_signed)
                   ELSE FastMul(raw_data, rhs, bits_num, scale_bits, is_signed)
    /\ pc' = "mul"
    /\ UNCHANGED <<config, lhs, rhs, divide, convert>>

\* fixed& operator/=(const fixed& other), other than the fast branch with a
\* zero divisor
Div ==
    /\ pc = "start"
    /\ fast_multdiv => rhs # 0
    /\ raw_data' = IF ~fast_multdiv
                   THEN SafeDiv(raw_data, rhs, bits_num, scale_bits, is_signed)
                   ELSE FastDiv(raw_data, rhs, bits_num, scale_bits, is_signed)
    /\ pc' = "div"
    /\ UNCHANGED <<config, lhs, rhs, divide, convert>>

\* operator/= in the fast branch with other.raw_data = 0: the int division
\* by zero is undefined; the build traps or stores any value of T
DivFastByZero ==
    /\ pc = "start"
    /\ fast_multdiv /\ rhs = 0
    /\ \/ pc' = "trap" /\ UNCHANGED raw_data
       \/ pc' = "div" /\ raw_data' \in TRange(bits_num, is_signed)
    /\ UNCHANGED <<config, lhs, rhs, divide, convert>>

Next == Mul \/ Div \/ DivFastByZero

Spec == Init /\ [][Next]_vars

----------------------------------------------------------------------------
(* SpecMulAll: operator*= of the safe strategy on every pair of values of  *)
(* uint8_t, whose magnitudes are all of 0 .. 2^8 - 1, with no scale bits,  *)
(* half of T's bits and all of T's bits as the scale.                      *)

InitMulAll ==
    /\ bits_num = Bits8
    /\ is_signed = FALSE
    /\ fast_multdiv = FALSE
    /\ scale_bits \in {0, bits_num \div 2, bits_num}
    /\ lhs \in TRange(bits_num, is_signed)
    /\ rhs \in TRange(bits_num, is_signed)
    /\ raw_data = lhs
    /\ pc = "start"
    /\ NoDivide
    /\ NoConvert

NextMulAll == Mul

SpecMulAll == InitMulAll /\ [][NextMulAll]_vars

----------------------------------------------------------------------------
(* SpecDivLoop: the safe branch of operator/= statement by statement.      *)

InitDivLoop ==
    /\ InitOperands
    /\ fast_multdiv = FALSE
    /\ raw_data = lhs
    /\ pc = "start"
    /\ NoDivide
    /\ NoConvert

\* lines 186-198: the magnitudes and the working pair
DivBegin ==
    /\ pc = "start"
    /\ ~fast_multdiv
    /\ b' = AbsUT(rhs, bits_num, is_signed)
    /\ div_high' = DivHighInit(AbsUT(raw_data, bits_num, is_signed), bits_num, scale_bits)
    /\ div_low' = DivLowInit(AbsUT(raw_data, bits_num, is_signed), bits_num, scale_bits)
    /\ i' = 1
    /\ pc' = "div_loop"
    /\ UNCHANGED <<config, lhs, rhs, raw_data, convert>>

\* lines 200-211: one iteration
DivIter ==
    /\ pc = "div_loop"
    /\ LoopCond(i, bits_num)
    /\ LET n == DivBody(div_high, div_low, b, bits_num)
       IN  div_high' = n[1] /\ div_low' = n[2]
    /\ i' = i + 1
    /\ UNCHANGED <<config, lhs, rhs, raw_data, pc, b, convert>>

\* lines 212-219: the sign and the store
DivEnd ==
    /\ pc = "div_loop"
    /\ ~LoopCond(i, bits_num)
    /\ raw_data' = DivStore(div_low, Negate(lhs, rhs, bits_num, is_signed), bits_num, is_signed)
    /\ pc' = "div"
    /\ UNCHANGED <<config, lhs, rhs, divide, convert>>

NextDivLoop == DivBegin \/ DivIter \/ DivEnd

\* the program is sequential: a statement that can run does run
SpecDivLoop == InitDivLoop /\ [][NextDivLoop]_vars /\ WF_vars(NextDivLoop)

----------------------------------------------------------------------------
(* SpecConv: a value constructed from int_val and converted to T2.         *)

\* T and T2 each one of uint8_t, int8_t, uint16_t, int16_t; the scales that
\* leave T an integer part; scale <= scale_bits, as the constructor requires
InitConv ==
    /\ bits_num \in {Bits8, Bits16}
    /\ is_signed \in BOOLEAN
    /\ fast_multdiv = FALSE
    /\ scale_bits \in 0 .. bits_num - 1
    /\ t2_bits \in {Bits8, Bits16}
    /\ t2_signed \in BOOLEAN
    /\ int_val \in -MaxInt .. MaxInt
    /\ scale \in 0 .. scale_bits
    /\ lhs = 0 /\ rhs = 0 /\ raw_data = 0 /\ result = 0
    /\ pc = "start"
    /\ NoDivide

\* fixed(int_val)
Construct ==
    /\ pc = "start"
    /\ raw_data' = FromInteger(int_val, bits_num, scale_bits, is_signed)
    /\ pc' = "from_integer"
    /\ UNCHANGED <<config, lhs, rhs, divide, convert>>

\* fixed(int_val, scale)
ConstructScaled ==
    /\ pc = "start"
    /\ raw_data' = FromScaled(int_val, scale, bits_num, scale_bits, is_signed)
    /\ pc' = "from_scaled"
    /\ UNCHANGED <<config, lhs, rhs, divide, convert>>

\* static_cast<T2>(value)
Convert ==
    /\ pc \in {"from_integer", "from_scaled"}
    /\ result' = ToInteger(raw_data, scale_bits, t2_bits, t2_signed)
    /\ pc' = IF pc = "from_integer" THEN "integer_converted" ELSE "scaled_converted"
    /\ UNCHANGED <<config, lhs, rhs, raw_data, divide, int_val, scale, t2_bits, t2_signed>>

NextConv == Construct \/ ConstructScaled \/ Convert

SpecConv == InitConv /\ [][NextConv]_vars

----------------------------------------------------------------------------
(* The reference results: exact integer arithmetic on the raw values.      *)

\* the exact product (x / 2^S) * (y / 2^S) at scale S, truncated toward zero
RefMul(x, y, S) == TruncDiv(x * y, Pow2(S))

\* the exact quotient (x / 2^S) / (y / 2^S) at scale S, truncated toward zero
RefDiv(x, y, S) == TruncDiv(x * Pow2(S), y)

Representable(v) == v \in TRange(bits_num, is_signed)

\* the n bits of x from bit lo upward
Bits(x, lo, n) == (x \div Pow2(lo)) % Pow2(n)

SafeMulDone == pc = "mul" /\ ~fast_multdiv
SafeDivDone == pc = "div" /\ ~fast_multdiv

\* the README's example, as set up by InitExample
IsExample ==
    /\ bits_num = Bits16 /\ ~is_signed /\ scale_bits = 8
    /\ lhs = FromInteger(13, bits_num, scale_bits, is_signed)
    /\ rhs = FromScaled(1, 4, bits_num, scale_bits, is_signed)

\* the product of the operands' magnitudes, and the magnitude stored
MagProduct == AbsUT(lhs, bits_num, is_signed) * AbsUT(rhs, bits_num, is_signed)
StoredMagnitude ==
    ToUT(IF Negate(lhs, rhs, bits_num, is_signed) THEN -raw_data ELSE raw_data, bits_num)

----------------------------------------------------------------------------
(* The claims.                                                             *)

C3_Wraparound ==
    LET exact == IF pc = "mul" THEN RefMul(lhs, rhs, scale_bits)
                               ELSE RefDiv(lhs, rhs, scale_bits)
    IN  ((SafeMulDone \/ SafeDivDone) /\ (pc = "div" => rhs # 0))
            => /\ Representable(exact) => raw_data = exact
               /\ ~is_signed => raw_data = exact % Pow2(bits_num)

\* C7: the safe division, whatever the dividend and the divisor (zero
\* included), runs its loop body exactly bits_num times, then stores a value
\* of T; it is never anywhere but in the operator or past it.
C7_DivisionTerminates ==
    /\ [](pc \in {"start", "div_loop", "div"} /\ i <= bits_num + 1)
    /\ <>(pc = "div" /\ i = bits_num + 1 /\ Representable(raw_data))

\* C7's case: a division by zero has finished
C7_Witness == pc = "div" /\ rhs = 0 /\ lhs # 0 /\ i = bits_num + 1

\* C8: in the safe multiplication none of the four partial sums, computed
\* exactly, exceeds 2^bits_num - 1, and the four half-words assembled from
\* them are the exact product of the magnitudes.
C8_NoIntermediateOverflow ==
    SafeMulDone =>
        LET p == AbsUT(lhs, bits_num, is_signed)
            q == AbsUT(rhs, bits_num, is_signed)
            n == low_bits_num(bits_num)
            m == Pow2(bits_num) - 1
        IN  /\ L1_L2_int(p, q, bits_num) <= m
            /\ H1_L2_C_int(p, q, bits_num) <= m
            /\ L1_H2_C_int(p, q, bits_num) <= m
            /\ H1_H2_C_int(p, q, bits_num) <= m
            /\ result_3(p, q, bits_num) * Pow2(3 * n) + result_2(p, q, bits_num) * Pow2(2 * n)
                   + result_1(p, q, bits_num) * Pow2(n) + result_0(p, q, bits_num) = p * q

\* C8's case: both magnitudes are 2^bits_num - 1
C8_Witness ==
    /\ SafeMulDone
    /\ lhs = Pow2(bits_num) - 1 /\ rhs = Pow2(bits_num) - 1
    /\ H1_H2_C_int(lhs, rhs, bits_num) >= Pow2(bits_num) - 2
    /\ result_high(lhs, rhs, bits_num) * Pow2(bits_num) + result_low(lhs, rhs, bits_num)
           = lhs * rhs

C10_StrategiesAgree ==
    /\ (pc = "mul" /\ fast_multdiv /\ Representable(RefMul(lhs, rhs, scale_bits)))
           => raw_data = SafeMul(lhs, rhs, bits_num, scale_bits, is_signed)
    /\ (pc = "div" /\ fast_multdiv /\ rhs # 0 /\ Representable(RefDiv(lhs, rhs, scale_bits)))
           => raw_data = SafeDiv(lhs, rhs, bits_num, scale_bits, is_signed)

\* C4: the conversion to T2 yields raw_data / 2^S truncated toward zero
\* whenever that integer is a value of T2.
C4_TruncatesTowardZero ==
    (pc \in {"integer_converted", "scaled_converted"}
        /\ TruncDiv(raw_data, Pow2(scale_bits)) \in TRange(t2_bits, t2_signed))
        => result = TruncDiv(raw_data, Pow2(scale_bits))

\* C5: an integer v with v * 2^S a value of T and v a value of T2 comes back
\* from the conversion to T2 of the value constructed from it.
C5_RoundTrip ==
    (pc = "integer_converted"
        /\ int_val * Pow2(scale_bits) \in TRange(bits_num, is_signed)
        /\ int_val \in TRange(t2_bits, t2_signed))
        => result = int_val

\* C6, as stated: the value constructed from (v, scale_bits) equals the
\* value constructed from v.
C6_ScaledBySEqualsInteger ==
    (pc = "from_scaled" /\ scale = scale_bits)
        => FixedEq(raw_data, FromInteger(int_val, bits_num, scale_bits, is_signed))

\* C6, amended: the value constructed from (v, 0) equals the value
\* constructed from v.
C6_ScaledByZeroEqualsInteger ==
    (pc = "from_scaled" /\ scale = 0)
        => FixedEq(raw_data, FromInteger(int_val, bits_num, scale_bits, is_signed))

\* C6's case: (v, 0) with v # 0 under a scale that moves v
C6_Witness ==
    /\ pc = "from_scaled" /\ scale = 0 /\ scale_bits > 0 /\ int_val # 0
    /\ raw_data # ToT(int_val, bits_num, is_signed)
    /\ FixedEq(raw_data, FromInteger(int_val, bits_num, scale_bits, is_signed))

====
